---------------------------- MODULE Spec2Model ----------------------------
(***************************************************************************)
(* Model of descarteslabs/services/service.py (Service, WrappedSession)    *)
(* and descarteslabs/services/places.py (Places and its cached methods).   *)
(*                                                                         *)
(* Four specifications share one set of variables:                         *)
(*   SpecSession  one caller: Service.session and token rotation           *)
(*   SpecRace     several callers inside Service.session, line by line     *)
(*   SpecRetry    one request through WrappedSession.request and the       *)
(*                Retry policy mounted by Service.build_session            *)
(*   SpecCache    one caller: the cachedmethod wrappers of Places          *)
(***************************************************************************)
EXTENDS Integers, Sequences, FiniteSets, TLC

VARIABLES
    token,            \* descarteslabs.descartes_auth.token (shared)
    current_session,  \* Service.current_session: NoSession or a session id
    session_token,    \* Service.session_token: None or a token
    sessions,         \* the WrappedSession objects built so far, by id
    pc,               \* per caller: its line inside Service.session
    st,               \* per caller: the session_token it read on line 76
    s,                \* per caller: build_session's local s
    ret,              \* per caller: what Service.session returned
    hist,             \* what one caller saw at its previous access
    req,              \* the request in flight through a session, then its outcome
    url,              \* the attribute self.url the methods of Places read
    cache,            \* Places.cache: the entries of the TTLCache, least recently used first
    now,              \* the clock of the TTLCache
    late,             \* the release of cachetools: is an entry still live at expire = time
    out,              \* the last cached call: what it met, did and returned
    recent,           \* the arguments with an entry, least recently called first
    cc                \* per caller: the locals of the cachedmethod wrapper it is in

svars == <<token, current_session, session_token, sessions>>
tvars == <<pc, st, s, ret>>
cvars == <<url, cache, now, late, out, recent, cc>>
vars == <<token, current_session, session_token, sessions, pc, st, s, ret, hist, req,
          url, cache, now, late, out, recent, cc>>

-----------------------------------------------------------------------------
(* Bounds of the model *)

MaxBuilds == 3       \* sessions built in one behaviour
NumThreads == 2      \* concurrent callers of one Service
MaxTime == 3         \* the clock stops here

(* Values *)

None == "None"
NoSession == 0
Tokens == {"t1", "t2"}
BackoffBases == {1, 2}          \* random.uniform(1, 3), to the integer below
BaseUrl == "https://places"
TIMEOUT == <<95, 300>>          \* (9.5, 30) in tenths of a second
Threads == 1..NumThreads

-----------------------------------------------------------------------------
(* Service.build_session, lines 85-114: the object it returns. The token   *)
(* is read once, on line 100, and copied into the Authorization header.    *)

NewSession(backoff) ==
    [base_url |-> BaseUrl, timeout |-> TIMEOUT, backoff |-> backoff, auth |-> None]

WithHeaders(sess, tok) == [sess EXCEPT !.auth = tok]

Complete(id) == id # NoSession /\ id \in 1..Len(sessions) /\ sessions[id].auth # None

-----------------------------------------------------------------------------
(* The Retry policy of Service.build_session, lines 88-97, as urllib3 and  *)
(* requests apply it to one request, and WrappedSession.request, 32-51.    *)

RetryTotal == 5
RetryRead == 2
method_whitelist == {"HEAD", "TRACE", "GET", "POST", "PUT", "OPTIONS", "DELETE"}
status_forcelist == {429, 500, 502, 503}

Methods == method_whitelist \cup {"PATCH"}
Statuses == {200, 204, 304, 400, 401, 404, 429, 500, 502, 503, 504}

(* What one attempt meets: a response, or a failure of the connection      *)
(* before the request is sent, or a failure while reading the response.    *)
Events ==
    [kind : {"response"}, status : Statuses]
        \cup [kind : {"connect_error", "read_error"}, status : {0}]

Response(n) == [kind |-> "response", status |-> n]

\* lines 38-51 with every exception built from resp.text
Classify_BodyAlways(status) ==
    CASE status = 200 -> [kind |-> "ok", msg |-> "resp"]
      [] status = 400 -> [kind |-> "BadRequestError", msg |-> "resp.text"]
      [] status = 404 -> [kind |-> "NotFoundError", msg |-> "resp.text"]
      [] status = 429 -> [kind |-> "RateLimitError", msg |-> "resp.text"]
      [] status = 504 -> [kind |-> "GatewayTimeoutError", msg |-> "resp.text"]
      [] OTHER -> [kind |-> "ServerError", msg |-> "resp.text"]

\* lines 38-51 with the 404 branch lost
Classify_No404(status) ==
    CASE status = 200 -> [kind |-> "ok", msg |-> "resp"]
      [] status = 400 -> [kind |-> "BadRequestError", msg |-> "resp.text"]
      [] status = 429 -> [kind |-> "RateLimitError", msg |-> "resp.text"]
      [] status = 504 -> [kind |-> "GatewayTimeoutError", msg |-> "Your request timed out"]
      [] OTHER -> [kind |-> "ServerError", msg |-> "resp.text"]

\* WrappedSession.request, lines 38-51: what it returns or raises, and the
\* text the exception is built from
Classify(status) ==
    CASE status = 200 -> [kind |-> "ok", msg |-> "resp"]
      [] status = 400 -> [kind |-> "BadRequestError", msg |-> "resp.text"]
      [] status = 404 -> [kind |-> "NotFoundError", msg |-> "404 method url"]
      [] status = 429 -> [kind |-> "RateLimitError", msg |-> "resp.text"]
      [] status = 504 -> [kind |-> "GatewayTimeoutError", msg |-> "Your request timed out"]
      [] OTHER -> [kind |-> "ServerError", msg |-> "resp.text"]

\* a whitelisted method retried whatever the status
IsRetry_AnyStatus(method, status) == method \in method_whitelist

\* a forcelisted status retried whatever the method
IsRetry_AnyMethod(method, status) == status \in status_forcelist

\* Retry.is_retry: a response is retried when the method is whitelisted and
\* the status is forcelisted (lines 91-95)
IsRetry(method, status) ==
    method \in method_whitelist /\ status \in status_forcelist

\* Retry(total=5, read=2), lines 88-89
RetryPolicy == [total |-> RetryTotal, read |-> RetryRead]

\* Retry.increment: every retry costs one of total, a read failure one of read
Increment(retry, ev) ==
    [total |-> retry.total - 1,
     read |-> IF ev.kind = "read_error" THEN retry.read - 1 ELSE retry.read]

\* Retry.is_exhausted
IsExhausted(retry) == retry.total < 0 \/ retry.read < 0

Raise(kind, msg, retry) == [over |-> TRUE, kind |-> kind, msg |-> msg, retry |-> retry]
Again(retry) == [over |-> FALSE, kind |-> "", msg |-> "", retry |-> retry]

(* One attempt of HTTPAdapter.send under the mounted Retry (line 97), then *)
(* lines 38-51 on a response that is not retried.  A retried response that *)
(* exhausts the policy raises MaxRetryError inside urllib3 (raise_on_status *)
(* is left at its default), which requests re-raises as RetryError; an     *)
(* exhausted or unretryable failure surfaces as ConnectionError.           *)
AfterAttempt(method, retry, ev) ==
    LET next == Increment(retry, ev)
    IN  CASE ev.kind = "response" /\ ~IsRetry(method, ev.status) ->
                 Raise(Classify(ev.status).kind, Classify(ev.status).msg, retry)
          [] ev.kind = "response" /\ IsRetry(method, ev.status) ->
                 IF IsExhausted(next)
                 THEN Raise("RetryError", "too many error responses", next)
                 ELSE Again(next)
          [] ev.kind = "read_error" /\ method \notin method_whitelist ->
                 Raise("ConnectionError", "read failed", retry)
          [] OTHER ->
                 IF IsExhausted(next)
                 THEN Raise("ConnectionError", "max retries exceeded", next)
                 ELSE Again(next)

\* the body text a response arrives with, and the path of the request
Bodies == {"no such place", "try later"}
NoBody == ""
Path == "/find/morocco"

\* the text the exception is constructed with, lines 41-51
Message(msg, method, body) ==
    CASE msg = "resp.text" -> <<body>>
      [] msg = "404 method url" -> <<"404", method, Path>>
      [] msg = "Your request timed out" ->
             <<"Your request timed out on the server. ",
               "Consider reducing the complexity of your request.">>
      [] OTHER -> <<msg>>

NoRequest ==
    [phase |-> "idle", method |-> "", sid |-> NoSession, retry |-> RetryPolicy,
     attempts |-> 0, responses |-> 0, only503 |-> TRUE,
     status |-> 0, kind |-> "", msg |-> "", body |-> NoBody, text |-> <<>>,
     sleeps |-> <<>>]

-----------------------------------------------------------------------------
(* Places.__init__, lines 28-37: self.cache = TTLCache(maxsize, ttl).      *)
(* maxsize and ttl are arguments of the constructor.                       *)

maxsize == 2
ttl == 2

(* A call of a cached method: its positional arguments, and its keyword    *)
(* arguments in the order the caller wrote them.                           *)

Ops == {"find", "shape", "prefix"}

Call(op, slug, kwargs) == [op |-> op, args |-> <<slug>>, kwargs |-> kwargs]

\* the calls the callers of the model make
Calls ==
    {Call("find", "morocco", <<<<"placetype", "country">>, <<"geom", "low">>>>),
     Call("find", "morocco", <<<<"geom", "low">>, <<"placetype", "country">>>>),
     Call("find", "morocco", <<<<"placetype", "region">>, <<"geom", "low">>>>),
     Call("shape", "morocco", <<>>),
     Call("prefix", "morocco", <<>>)}

\* the keyword arguments as the mapping Python passes on
Items(kwargs) == {kwargs[i] : i \in DOMAIN kwargs}

(* cachetools.keys.hashkey behind partial(hashkey, 'find'), lines 75, 99   *)
(* and 131: args + sum(sorted(kwargs.items()), kwmark).                    *)

kwmark == "<kwmark>"

\* "geom" < "placetype"
NameRank(name) == IF name = "geom" THEN 1 ELSE 2

RECURSIVE Insert(_, _)
Insert(p, sq) ==
    IF sq = <<>> THEN <<p>>
    ELSE IF NameRank(p[1]) < NameRank(Head(sq)[1]) THEN <<p>> \o sq
    ELSE <<Head(sq)>> \o Insert(p, Tail(sq))

RECURSIVE sorted(_)
sorted(sq) == IF sq = <<>> THEN <<>> ELSE Insert(Head(sq), sorted(Tail(sq)))

RECURSIVE Flatten(_)
Flatten(sq) == IF sq = <<>> THEN <<>> ELSE Head(sq) \o Flatten(Tail(sq))

\* a key without the name of the operation
hashkey_NoOp(op, args, kwargs) ==
    IF kwargs = <<>> THEN args
    ELSE args \o <<kwmark>> \o Flatten(sorted(kwargs))

\* a key that leaves the keyword arguments out
hashkey_NoKwargs(op, args, kwargs) == <<op>> \o args

\* a key that keeps the keywords in the order they were written
hashkey_Unsorted(op, args, kwargs) ==
    IF kwargs = <<>> THEN <<op>> \o args
    ELSE <<op>> \o args \o <<kwmark>> \o Flatten(kwargs)

hashkey(op, args, kwargs) ==
    IF kwargs = <<>> THEN <<op>> \o args
    ELSE <<op>> \o args \o <<kwmark>> \o Flatten(sorted(kwargs))

\* the key of each call
KeyOf == [c \in Calls |-> hashkey(c.op, c.args, c.kwargs)]
Key(c) == KeyOf[c]

(* The request a method body sends: path and query parameters.             *)
(*   find   line 95:       /find/<path>, params=kwargs                     *)
(*   shape  line 127:      /shape/<slug>.<output>, params={'geom': geom}   *)
(*   prefix lines 149-154: /prefix/<slug>.<output>, placetype if given,    *)
(*                         geom                                            *)
Keyword(c, name, default) ==
    IF \E p \in Items(c.kwargs) : p[1] = name
    THEN (CHOOSE p \in Items(c.kwargs) : p[1] = name)[2]
    ELSE default

Query(c) ==
    CASE c.op = "find" ->
             [path |-> <<"find", c.args[1]>>, params |-> Items(c.kwargs)]
      [] c.op = "shape" ->
             [path |-> <<"shape", c.args[1], "geojson">>,
              params |-> {<<"geom", Keyword(c, "geom", "low")>>}]
      [] OTHER ->
             [path |-> <<"prefix", c.args[1], "geojson">>,
              params |-> {p \in Items(c.kwargs) : p[1] = "placetype"}
                             \cup {<<"geom", Keyword(c, "geom", "low")>>}]

NoArgs == Call("", "", <<>>)

\* r.json(): what the backend holds for the request at the time it answers,
\* with the call it answers
Json(c, time) == [q |-> Query(c), at |-> time, call |-> c]
NoValue == [q |-> [path |-> <<>>, params |-> {}], at |-> 0, call |-> NoArgs]

(* cachetools.TTLCache, line 37.  An entry is [key, value, expire]; the    *)
(* sequence is the order of TTLCache's links, least recently used first.   *)
(* Releases of cachetools differ on the instant expire = time: until 4.x   *)
(* an entry is expired when expire < time, from 5.0 when expire <= time;   *)
(* the variable late says which of the two the installed release does.     *)

Keys(c) == {c[i].key : i \in DOMAIN c}
Entry(c, k) == c[CHOOSE i \in DOMAIN c : c[i].key = k]

\* an entry that never expires
IsExpired_Never(e, time) == FALSE

IsExpired(e, time) == e.expire < time \/ (~late /\ e.expire = time)

\* TTLCache.expire(time): drop every expired entry
Expire(c, time) == SelectSeq(c, LAMBDA e : ~IsExpired(e, time))

\* a lookup that leaves the order of use alone
GetLink_NoMove(c, k) == c

\* TTLCache.__getlink: the entry of k, if any, becomes the most recently used
GetLink(c, k) ==
    IF k \in Keys(c)
    THEN SelectSeq(c, LAMBDA e : e.key # k) \o <<Entry(c, k)>>
    ELSE c

\* TTLCache.__getitem__: a value only from an entry that has not expired
Live(c, k, time) == k \in Keys(c) /\ ~IsExpired(Entry(c, k), time)

\* eviction of the most recently used entry
PopItem_Newest(c, time) ==
    LET c1 == Expire(c, time)
    IN  IF c1 = <<>> THEN c1 ELSE SubSeq(c1, 1, Len(c1) - 1)

\* TTLCache.popitem: expire, then drop the least recently used entry
PopItem(c, time) ==
    LET c1 == Expire(c, time)
    IN  IF c1 = <<>> THEN c1 ELSE Tail(c1)

\* a store that never evicts
MakeRoom_Never(c, time) == c

\* Cache.__setitem__: while currsize + size > maxsize: self.popitem()
RECURSIVE MakeRoom(_, _)
MakeRoom(c, time) ==
    IF Len(c) + 1 > maxsize /\ c # <<>>
    THEN MakeRoom(PopItem(c, time), time)
    ELSE c

\* TTLCache.__setitem__: expire, make room for a new key, store the value
\* as the most recently used entry, to expire at time + ttl
SetItem(c, k, v, time) ==
    LET c1 == Expire(c, time)
        c2 == IF k \notin Keys(c1) THEN MakeRoom(c1, time) ELSE c1
    IN  SelectSeq(c2, LAMBDA e : e.key # k)
            \o <<[key |-> k, value |-> v, expire |-> time + ttl]>>

\* the wrapper's locals: the call (its key is Key(call)) and the value v
NoLocals == [call |-> NoArgs, v |-> NoValue]

\* what the last call of a cached method met and did
NoCall ==
    [call |-> NoArgs, tok |-> None, had |-> "none", oldat |-> -1, order |-> <<>>,
     hit |-> FALSE, sent |-> FALSE, kind |-> "", value |-> NoValue]

-----------------------------------------------------------------------------
(* Service.__init__, lines 57-64: no session, no remembered token.  The    *)
(* shared token is whatever the auth context holds.                        *)

Init ==
    /\ token \in Tokens
    /\ current_session = NoSession
    /\ session_token = None
    /\ sessions = <<>>
    /\ pc = [t \in Threads |-> "idle"]
    /\ st = [t \in Threads |-> None]
    /\ s = [t \in Threads |-> NoSession]
    /\ ret = [t \in Threads |-> NoSession]
    /\ hist = [n |-> 0, prev |-> NoSession, built |-> 0, same |-> FALSE, who |-> 1]
    /\ req = NoRequest
    /\ url = None
    /\ cache = <<>>
    /\ now = 0
    /\ late = TRUE
    /\ out = NoCall
    /\ recent = <<>>
    /\ cc = [t \in Threads |-> NoLocals]

(* The auth context rotates the shared token (also Service.token's setter, *)
(* lines 70-72).                                                           *)
SetToken(tok) ==
    /\ tok # token
    /\ token' = tok
    /\ UNCHANGED <<current_session, session_token, sessions>>

-----------------------------------------------------------------------------
(* Service.session, lines 74-83 *)

\* a session that outlives a token change
TokenChanged_Never(stok, tok) == FALSE

\* line 76: the remembered token differs from the current one
TokenChanged(stok, tok) == stok # tok

\* line 79: "not self.current_session"
Falsy(cs) == cs = NoSession

\* line 80: build_session() called with the token read on line 100
Built(backoff, tok) == WithHeaders(NewSession(backoff), tok)

(* The whole property, for a caller that nothing interleaves with. *)
SessionAccess(t) ==
    LET cs == IF TokenChanged(session_token, token) THEN NoSession ELSE current_session
    IN  IF Falsy(cs)
        THEN /\ Len(sessions) < MaxBuilds
             /\ \E b \in BackoffBases : sessions' = Append(sessions, Built(b, token))
             /\ current_session' = Len(sessions) + 1
             /\ session_token' = token
             /\ ret' = [ret EXCEPT ![t] = Len(sessions) + 1]
             /\ UNCHANGED token
        ELSE /\ ret' = [ret EXCEPT ![t] = cs]
             /\ current_session' = cs
             /\ UNCHANGED <<token, session_token, sessions>>

(* One caller's access; hist keeps what held just before it. *)
Access(t) ==
    /\ SessionAccess(t)
    /\ hist' = [n |-> 1,
                prev |-> IF hist.n = 0 THEN NoSession ELSE ret[hist.who],
                built |-> Len(sessions),
                same |-> (session_token = token),
                who |-> t]
    /\ UNCHANGED <<pc, st, s, req, cvars>>

Rotate ==
    /\ \E tok \in Tokens : SetToken(tok)
    /\ UNCHANGED <<pc, st, s, ret, hist, req, cvars>>

NextSession == (\E t \in Threads : Access(t)) \/ Rotate

SpecSession == Init /\ [][NextSession]_vars

-----------------------------------------------------------------------------
(* Service.session line by line, for callers sharing one Service.  Each    *)
(* action is one read or one write of shared state; locals are st and s.   *)

Goto(t, l) == pc' = [pc EXCEPT ![t] = l]

Enter(t) ==
    /\ pc[t] = "idle"
    /\ Goto(t, "l76")
    /\ UNCHANGED <<svars, st, s, ret, hist, req, cvars>>

\* line 76, left operand: self.session_token
L76(t) ==
    /\ pc[t] = "l76"
    /\ st' = [st EXCEPT ![t] = session_token]
    /\ Goto(t, "l76c")
    /\ UNCHANGED <<svars, s, ret, hist, req, cvars>>

\* line 76, right operand self.token and the comparison
L76c(t) ==
    /\ pc[t] = "l76c"
    /\ Goto(t, IF TokenChanged(st[t], token) THEN "l77" ELSE "l79")
    /\ UNCHANGED <<svars, st, s, ret, hist, req, cvars>>

\* line 77: self.current_session = None
L77(t) ==
    /\ pc[t] = "l77"
    /\ current_session' = NoSession
    /\ Goto(t, "l79")
    /\ UNCHANGED <<token, session_token, sessions, st, s, ret, hist, req, cvars>>

\* line 79: if not self.current_session
L79(t) ==
    /\ pc[t] = "l79"
    /\ Goto(t, IF Falsy(current_session) THEN "l86" ELSE "l83")
    /\ UNCHANGED <<svars, st, s, ret, hist, req, cvars>>

\* lines 86-97: s = WrappedSession(...), retries mounted; s is local
L86(t) ==
    /\ pc[t] = "l86"
    /\ Len(sessions) < MaxBuilds
    /\ \E b \in BackoffBases : sessions' = Append(sessions, NewSession(b))
    /\ s' = [s EXCEPT ![t] = Len(sessions) + 1]
    /\ Goto(t, "l99")
    /\ UNCHANGED <<token, current_session, session_token, st, ret, hist, req, cvars>>

\* the headers written into the session the Service holds, not into the new one
L99_IntoHeld(t) ==
    /\ pc[t] = "l99"
    /\ sessions' = [sessions EXCEPT
                      ![IF current_session # NoSession THEN current_session ELSE s[t]] =
                          WithHeaders(@, token)]
    /\ Goto(t, "l80")
    /\ UNCHANGED <<token, current_session, session_token, st, s, ret, hist, req, cvars>>

\* lines 99-103: s.headers.update({"Authorization": self.token, ...})
L99(t) ==
    /\ pc[t] = "l99"
    /\ sessions' = [sessions EXCEPT ![s[t]] = WithHeaders(@, token)]
    /\ Goto(t, "l80")
    /\ UNCHANGED <<token, current_session, session_token, st, s, ret, hist, req, cvars>>

\* line 80: self.current_session = <the value build_session returned>
L80(t) ==
    /\ pc[t] = "l80"
    /\ current_session' = s[t]
    /\ Goto(t, "l81")
    /\ UNCHANGED <<token, session_token, sessions, st, s, ret, hist, req, cvars>>

\* line 81: self.session_token = self.token
L81(t) ==
    /\ pc[t] = "l81"
    /\ session_token' = token
    /\ Goto(t, "l83")
    /\ UNCHANGED <<token, current_session, sessions, st, s, ret, hist, req, cvars>>

\* line 83: return self.current_session
L83(t) ==
    /\ pc[t] = "l83"
    /\ ret' = [ret EXCEPT ![t] = current_session]
    /\ Goto(t, "done")
    /\ UNCHANGED <<svars, st, s, hist, req, cvars>>

\* the call is over: its locals are gone, the caller may ask again
Leave(t) ==
    /\ pc[t] = "done"
    /\ Goto(t, "idle")
    /\ st' = [st EXCEPT ![t] = None]
    /\ s' = [s EXCEPT ![t] = NoSession]
    /\ UNCHANGED <<svars, ret, hist, req, cvars>>

RotateRace ==
    /\ \E tok \in Tokens : SetToken(tok)
    /\ UNCHANGED <<pc, st, s, ret, hist, req, cvars>>

Step(t) ==
    \/ Enter(t) \/ L76(t) \/ L76c(t) \/ L77(t) \/ L79(t) \/ L86(t)
    \/ L99(t) \/ L80(t) \/ L81(t) \/ L83(t) \/ Leave(t)

NextRace == (\E t \in Threads : Step(t)) \/ RotateRace

SpecRace == Init /\ [][NextRace]_vars

-----------------------------------------------------------------------------
(* One request, self.session.<method>(url): the session is fetched, then   *)
(* each attempt meets one event until the request returns or raises.       *)

Request(m) ==
    /\ req.phase # "sending"
    /\ SessionAccess(1)
    /\ req' = [NoRequest EXCEPT !.phase = "sending", !.method = m, !.sid = ret'[1]]
    /\ UNCHANGED <<pc, st, s, hist, cvars>>

\* a factor that changes from one attempt to the next
BackoffFactor_PerAttempt(sid) == IF req.attempts % 2 = 0 THEN 1 ELSE 2

\* the backoff_factor of the Retry mounted on the session (lines 88-97), which
\* Retry.increment hands on to the Retry of the next attempt
BackoffFactor(sid) == sessions[sid].backoff

Attempt(ev) ==
    /\ req.phase = "sending"
    /\ \E body \in IF ev.kind = "response" THEN Bodies ELSE {NoBody} :
         LET a == AfterAttempt(req.method, req.retry, ev)
         IN  req' = [req EXCEPT
                       !.phase = IF a.over THEN "done" ELSE "sending",
                       !.retry = a.retry,
                       !.attempts = @ + 1,
                       !.responses = IF ev.kind = "response" THEN @ + 1 ELSE @,
                       !.only503 = @ /\ ev = Response(503),
                       !.status = ev.status,
                       !.kind = a.kind,
                       !.msg = a.msg,
                       !.body = body,
                       !.text = IF a.over THEN Message(a.msg, req.method, body) ELSE <<>>,
                       !.sleeps = IF a.over THEN @ ELSE Append(@, BackoffFactor(req.sid))]
    /\ UNCHANGED <<svars, pc, st, s, ret, hist, cvars>>

NextRetry == (\E m \in Methods : Request(m)) \/ (\E ev \in Events : Attempt(ev))

SpecRetry == Init /\ [][NextRetry]_vars

(* Requests of one caller, one after the other, while the auth context     *)
(* rotates the token at any moment, also while a request is in flight.     *)
BackoffMethods == {"GET", "PATCH"}
BackoffEvents ==
    {Response(200), Response(404), Response(503), [kind |-> "connect_error", status |-> 0]}

NextBackoff ==
    \/ \E m \in BackoffMethods : Request(m)
    \/ \E ev \in BackoffEvents : Attempt(ev)
    \/ Rotate

SpecBackoff == Init /\ [][NextBackoff]_vars

(* Service.__init__, lines 57-64, run for another Service on the same auth *)
(* context (descarteslabs.descartes_auth is one object for the process):   *)
(* line 61 stores a token argument that is not empty into the shared       *)
(* auth._token; the fields of lines 63-64 are those of the new instance.   *)
Construct(arg) ==
    /\ token' = IF arg # None THEN arg ELSE token
    /\ UNCHANGED <<current_session, session_token, sessions, pc, st, s, ret, hist, req, cvars>>

(* What Services do, with no rotation by the auth context itself: they are *)
(* constructed, their session is accessed, requests are sent.              *)
NextService ==
    \/ \E arg \in Tokens \cup {None} : Construct(arg)
    \/ \E t \in Threads : Access(t)
    \/ \E m \in BackoffMethods : Request(m)
    \/ \E ev \in BackoffEvents : Attempt(ev)

SpecService == Init /\ [][NextService]_vars

-----------------------------------------------------------------------------
(* A whole request at once, for a caller that waits for it: the events the *)
(* backend produces are `head`, then `rest` for every later attempt.       *)

RECURSIVE Send(_, _, _, _)
Send(method, retry, head, rest) ==
    LET ev == IF head = <<>> THEN rest ELSE Head(head)
        a == AfterAttempt(method, retry, ev)
    IN  IF a.over THEN a
        ELSE Send(method, a.retry, IF head = <<>> THEN head ELSE Tail(head), rest)

\* how a GET of a cached method can end: the backend answers 200, 404 or
\* 503 to every attempt, after a first 503 or not
Heads == {<<>>, <<Response(503)>>}
Rests == {Response(200), Response(404), Response(503)}
GetOutcomes == {Send("GET", RetryPolicy, head, rest).kind : head \in Heads, rest \in Rests}

-----------------------------------------------------------------------------
(* The cached methods of Places, lines 75-156, behind                      *)
(* cachedmethod(operator.attrgetter('cache'), key=partial(hashkey, op)):   *)
(*     k = key of the positional and keyword arguments                     *)
(*     try: return c[k]                                                    *)
(*     except KeyError: pass                                               *)
(*     v = method(self, arguments)                                         *)
(*     c[k] = v                                                            *)
(*     return v                                                            *)
(* and the body of each: self.session.get('%s/...' % (self.url, ...)),     *)
(* which fetches the session, then reads self.url, then sends one GET.     *)

\* a wrapper that stores whatever the call ended with
Stored_Always(kind) == TRUE

\* the wrapper reaches c[k] = v only when method() returned
Stored(kind) == kind = "ok"

(* What the caller can tell apart: a call is its operation, its positional *)
(* arguments and its keyword arguments as a mapping.                       *)
ArgIdOf ==
    [c \in Calls \cup {NoArgs} |-> [op |-> c.op, args |-> c.args, kw |-> Items(c.kwargs)]]
ArgId(c) == ArgIdOf[c]

EntriesFor(ch, c) == {i \in DOMAIN ch : ArgId(ch[i].value.call) = ArgId(c)}

\* the entry was stored less than ttl ago
Within(e, time) == time < e.value.at + ttl

\* the entry stored for these arguments, as the call finds it: none, or one
\* within its TTL, at the instant its TTL ends, or past it
Had(c) ==
    LET es == {cache[i] : i \in EntriesFor(cache, c)}
    IN  IF es = {} THEN "none"
        ELSE IF \E e \in es : Within(e, now) THEN "live"
        ELSE IF \E e \in es : now = e.value.at + ttl THEN "edge"
        ELSE "stale"

\* when the entry for these arguments was stored
AtOf(id) ==
    LET ats == {cache[i].value.at : i \in {j \in DOMAIN cache : ArgId(cache[j].value.call) = id}}
    IN  IF ats = {} THEN -1 ELSE CHOOSE a \in ats : \A b \in ats : b <= a

OldAt(c) == AtOf(ArgId(c))

\* the arguments called, most recent last, kept for those with an entry
Used(c, ch) ==
    LET id == ArgId(c)
        all == SelectSeq(recent, LAMBDA x : x # id) \o <<id>>
    IN  SelectSeq(all, LAMBDA x : \E i \in DOMAIN ch : ArgId(ch[i].value.call) = x)

\* the cache holds maxsize entries, each within its TTL
FullLive == Len(cache) = maxsize /\ \A i \in DOMAIN cache : Within(cache[i], now)

\* the arguments with an entry, least recently accessed first, and when each
\* entry was stored
Order == [i \in DOMAIN recent |-> [id |-> recent[i], at |-> AtOf(recent[i])]]

\* a hit that fetches the session on its way
Hit_ThroughSession(c, k) ==
    /\ Live(cache, k, now)
    /\ SessionAccess(1)
    /\ cache' = GetLink(cache, k)
    /\ out' = [call |-> c, tok |-> token, had |-> Had(c), oldat |-> OldAt(c), order |-> <<>>,
               hit |-> TRUE, sent |-> FALSE, kind |-> "ok",
               value |-> Entry(cache, k).value]
    /\ recent' = Used(c, cache')
    /\ UNCHANGED now

Hit(c, k) ==
    /\ Live(cache, k, now)
    /\ cache' = GetLink(cache, k)
    /\ out' = [call |-> c, tok |-> token, had |-> Had(c), oldat |-> OldAt(c), order |-> <<>>,
               hit |-> TRUE, sent |-> FALSE, kind |-> "ok",
               value |-> Entry(cache, k).value]
    /\ recent' = Used(c, cache')
    /\ UNCHANGED <<svars, ret, now>>

\* self.url is not an attribute of the instance: AttributeError, nothing sent
NoUrl(c, k) ==
    /\ ~Live(cache, k, now)
    /\ url = None
    /\ SessionAccess(1)
    /\ cache' = GetLink(cache, k)
    /\ out' = [call |-> c, tok |-> token, had |-> Had(c), oldat |-> OldAt(c), order |-> <<>>,
               hit |-> FALSE, sent |-> FALSE, kind |-> "AttributeError",
               value |-> NoValue]
    /\ recent' = Used(c, cache')
    /\ UNCHANGED now

Miss(c, k) ==
    /\ ~Live(cache, k, now)
    /\ url # None
    /\ SessionAccess(1)
    /\ \E kind \in GetOutcomes :
         LET v == IF kind = "ok" THEN Json(c, now) ELSE NoValue
             fresh == kind = "ok" /\ Had(c) = "none" /\ FullLive
         IN  /\ cache' = IF Stored(kind)
                         THEN SetItem(GetLink(cache, k), k, v, now)
                         ELSE GetLink(cache, k)
             /\ out' = [call |-> c, tok |-> token, had |-> Had(c), oldat |-> OldAt(c),
                        order |-> IF fresh THEN Order ELSE <<>>,
                        hit |-> FALSE, sent |-> TRUE, kind |-> kind, value |-> v]
    /\ recent' = Used(c, cache')
    /\ UNCHANGED now

CachedHit(c) == Hit(c, Key(c)) /\ UNCHANGED <<pc, st, s, hist, req, url, late, cc>>
CachedNoUrl(c) == NoUrl(c, Key(c)) /\ UNCHANGED <<pc, st, s, hist, req, url, late, cc>>
CachedMiss(c) == Miss(c, Key(c)) /\ UNCHANGED <<pc, st, s, hist, req, url, late, cc>>

CachedCall(c) == CachedHit(c) \/ CachedNoUrl(c) \/ CachedMiss(c)

\* the timer of TTLCache moves on between two calls
Tick ==
    /\ now < MaxTime
    /\ now' = now + 1
    /\ UNCHANGED <<svars, tvars, hist, req, url, cache, late, out, recent, cc>>

(* A Places instance after construction, lines 28-37: an empty cache.  The  *)
(* attribute url is there only if something other than Service.__init__    *)
(* has set it; late is the release of cachetools that is installed.        *)
InitCache ==
    /\ token = "t1"
    /\ current_session = NoSession
    /\ session_token = None
    /\ sessions = <<>>
    /\ pc = [t \in Threads |-> "idle"]
    /\ st = [t \in Threads |-> None]
    /\ s = [t \in Threads |-> NoSession]
    /\ ret = [t \in Threads |-> NoSession]
    /\ hist = [n |-> 0, prev |-> NoSession, built |-> 0, same |-> FALSE, who |-> 1]
    /\ req = NoRequest
    /\ url \in {None, BaseUrl}
    /\ cache = <<>>
    /\ now = 0
    /\ late \in BOOLEAN
    /\ out = NoCall
    /\ recent = <<>>
    /\ cc = [t \in Threads |-> NoLocals]

NextCache == (\E c \in Calls : CachedCall(c)) \/ Tick

SpecCache == InitCache /\ [][NextCache]_vars

-----------------------------------------------------------------------------
(* The other methods of Places (placetypes line 48, random 52-73, sources  *)
(* 158-163, categories 165-170, metrics 172-177, data, statistics, value): *)
(* no wrapper; each fetches the session, reads self.url, sends one GET and *)
(* returns r.json().                                                       *)

UncachedOps ==
    {"placetypes", "random", "sources", "categories", "metrics", "data", "statistics",
     "value"}

PlainCall(op) == [op |-> op, args |-> <<>>, kwargs |-> <<>>]

Uncached(op) ==
    /\ SessionAccess(1)
    /\ \E kind \in IF url = None THEN {"AttributeError"} ELSE GetOutcomes :
         out' = [call |-> PlainCall(op), tok |-> token, had |-> "none", oldat |-> -1,
                 order |-> <<>>, hit |-> FALSE, sent |-> (url # None), kind |-> kind,
                 value |-> IF kind = "ok"
                           THEN [q |-> [path |-> <<op>>, params |-> {}], at |-> now,
                                 call |-> PlainCall(op)]
                           ELSE NoValue]
    /\ UNCHANGED <<pc, st, s, hist, req, url, cache, now, late, recent, cc>>

(* One caller using cached and uncached methods of Places while the auth   *)
(* context rotates the token, all within the TTL of what is stored.        *)
PlacesCalls == {c \in Calls : c.kwargs = <<>> \/ c.kwargs[1][1] = "placetype"}
PlacesUncached == {"placetypes", "random"}

NextPlaces ==
    \/ \E c \in PlacesCalls : CachedHit(c)
    \/ \E c \in PlacesCalls : CachedNoUrl(c)
    \/ \E c \in PlacesCalls : CachedMiss(c)
    \/ \E op \in PlacesUncached : Uncached(op)
    \/ Rotate

SpecPlaces == InitCache /\ [][NextPlaces]_vars

-----------------------------------------------------------------------------
(* The same wrapper for callers that share the Places instance.  It is     *)
(* given no lock (lines 75, 99, 131), so the callers interleave between    *)
(* its steps, and between the two halves of the store: Cache.__setitem__   *)
(* first makes room, "while currsize + size > maxsize: popitem()", and     *)
(* then writes the entry.                                                  *)

SetLocals(t, c, v) == cc' = [cc EXCEPT ![t] = [call |-> c, v |-> v]]

\* k = key(arguments)
WBegin(t, c) ==
    /\ pc[t] = "idle"
    /\ SetLocals(t, c, NoValue)
    /\ Goto(t, "get")
    /\ UNCHANGED <<svars, st, s, ret, hist, req, url, cache, now, late, out, recent>>

\* try: return c[k]
WGet(t) ==
    /\ pc[t] = "get"
    /\ cache' = GetLink(cache, Key(cc[t].call))
    /\ IF Live(cache, Key(cc[t].call), now)
       THEN SetLocals(t, NoArgs, NoValue) /\ Goto(t, "idle")
       ELSE Goto(t, "call") /\ UNCHANGED cc
    /\ UNCHANGED <<svars, st, s, ret, hist, req, url, now, late, out, recent>>

\* v = method(self, arguments): the session, self.url, one GET
WCall(t) ==
    /\ pc[t] = "call"
    /\ SessionAccess(t)
    /\ \E kind \in IF url = None THEN {"AttributeError"} ELSE GetOutcomes :
         IF kind = "ok"
         THEN SetLocals(t, cc[t].call, Json(cc[t].call, now)) /\ Goto(t, "room")
         ELSE SetLocals(t, NoArgs, NoValue) /\ Goto(t, "idle")
    /\ UNCHANGED <<st, s, hist, req, url, cache, now, late, out, recent>>

\* c[k] = v, first half: expire, and make room if the key is new
WRoom(t) ==
    /\ pc[t] = "room"
    /\ LET c1 == Expire(cache, now)
       IN  cache' = IF Key(cc[t].call) \notin Keys(c1) THEN MakeRoom(c1, now) ELSE c1
    /\ Goto(t, "store")
    /\ UNCHANGED <<svars, st, s, ret, hist, req, url, now, late, out, recent, cc>>

\* c[k] = v, second half: the entry, as the most recently used; return v
WStore(t) ==
    /\ pc[t] = "store"
    /\ cache' = SelectSeq(cache, LAMBDA e : e.key # Key(cc[t].call))
                    \o <<[key |-> Key(cc[t].call), value |-> cc[t].v, expire |-> now + ttl]>>
    /\ SetLocals(t, NoArgs, NoValue)
    /\ Goto(t, "idle")
    /\ UNCHANGED <<svars, st, s, ret, hist, req, url, now, late, out, recent>>

\* the calls the concurrent callers make: three keys, one more than fit
RaceCalls == {c \in Calls : c.kwargs = <<>> \/ c.kwargs[1] = <<"placetype", "country">>}

WStep(t) ==
    \/ \E c \in RaceCalls : WBegin(t, c)
    \/ WGet(t) \/ WCall(t) \/ WRoom(t) \/ WStore(t)

NextCacheRace == (\E t \in Threads : WStep(t)) \/ Tick

SpecCacheRace == InitCache /\ [][NextCacheRace]_vars

-----------------------------------------------------------------------------
(* C1: in a sequential history of session accesses and token changes, the  *)
(* first access builds a session; an access made when the current token    *)
(* differs from the remembered one returns a newly built instance,         *)
(* distinct from the one returned before; an access made when the tokens   *)
(* are equal returns the instance of the previous access and builds        *)
(* nothing.                                                                *)
C1_SessionRebuild ==
    hist.n > 0 =>
        LET r == ret[hist.who]
        IN  /\ Complete(r)
            /\ sessions[r].auth = session_token
            /\ hist.built = 0 => (r = 1 /\ Len(sessions) = 1)
            /\ (hist.built > 0 /\ ~hist.same) =>
                   (r = hist.built + 1 /\ Len(sessions) = hist.built + 1 /\ r # hist.prev)
            /\ (hist.built > 0 /\ hist.same) =>
                   (r = hist.prev /\ Len(sessions) = hist.built)

\* the third access of spec section 8.1: after a rebuild, the second instance again
C1_Witness ==
    /\ hist.n > 0 /\ hist.same /\ hist.built = 2
    /\ hist.prev = 2 /\ ret[hist.who] = 2
    /\ sessions[1].auth # sessions[2].auth

(* C2: under any interleaving of session accesses with token rotations,    *)
(* every access returns a fully constructed session, never None and never  *)
(* a session without its headers.                                          *)
C2_ReturnsBuiltSession ==
    \A t \in Threads : pc[t] = "done" => Complete(ret[t])

-----------------------------------------------------------------------------
TransportFailures == {"RetryError", "ConnectionError"}

\* the request is over and line 36 handed a response to lines 38-51
Terminal == req.phase = "done" /\ req.kind \notin TransportFailures

(* C7: what a terminal response becomes depends on its status code alone   *)
(* and is total: 200 is returned, 400 raises BadRequest, 404 NotFound, 429 *)
(* RateLimited, 504 GatewayTimeout and any other status ServerError, one   *)
(* outcome for every status code.                                          *)
C7_StatusClassification ==
    Terminal =>
        /\ req.kind = "ok" <=> req.status = 200
        /\ req.kind = "BadRequestError" <=> req.status = 400
        /\ req.kind = "NotFoundError" <=> req.status = 404
        /\ req.kind = "RateLimitError" <=> req.status = 429
        /\ req.kind = "GatewayTimeoutError" <=> req.status = 504
        /\ req.kind = "ServerError" <=> req.status \notin {200, 400, 404, 429, 504}

\* a 404 that ends a request which was retried before it
C7_Witness ==
    /\ Terminal /\ req.attempts > 1
    /\ req.status = 404 /\ req.kind = "NotFoundError"

(* C8: when the backend answers every attempt of a retryable request with  *)
(* 503, the request is retried up to 5 times and then raises ServerError.  *)
C8_Always503RaisesServerError ==
    (req.phase = "done" /\ req.only503 /\ req.method \in method_whitelist) =>
        /\ req.attempts <= RetryTotal + 1
        /\ req.kind = "ServerError"

(* C9: a request whose method is outside the retryable set gets one        *)
(* response even when its status is forcelisted: the first response ends   *)
(* the request and is classified into its error kind.                      *)
C9_NonRetryableMethodOnce ==
    (req.method = "PATCH" /\ req.responses > 0) =>
        /\ req.phase = "done"
        /\ req.responses = 1
        /\ req.status = 429 => req.kind = "RateLimitError"
        /\ req.status \in {500, 502, 503} => req.kind = "ServerError"

C9_Witness ==
    /\ req.phase = "done" /\ req.method = "PATCH" /\ req.attempts = 1
    /\ req.status = 503 /\ req.kind = "ServerError"

-----------------------------------------------------------------------------
(* The instance attribute url, read by every method of Places, is not set  *)
(* by Service.__init__ (line 59 sets base_url): where nothing else has set *)
(* it, a cached method raises AttributeError before it sends anything and  *)
(* the cache stays empty.  The properties below are about calls that meet  *)
(* an entry, so they are about instances on which the attribute exists.    *)

Stores == {ArgId(cache[i].value.call) : i \in DOMAIN cache}

\* the call differs from the one stored in the value of a keyword argument
DiffersInValue(c, d) ==
    /\ c.op = d.op /\ c.args = d.args
    /\ {p[1] : p \in Items(c.kwargs)} = {p[1] : p \in Items(d.kwargs)}
    /\ Items(c.kwargs) # Items(d.kwargs)

(* C3: a call of find, shape or prefix made while the entry of an earlier  *)
(* call with the same operation and the same arguments is within its TTL   *)
(* and in the cache sends no request and returns the stored value, so the  *)
(* two calls sent one request, the one whose response was stored; a call   *)
(* that differs from the stored one in the value of a keyword argument     *)
(* sends a request of its own.                                             *)
C3_IdenticalCallsOneRequest ==
    /\ \A i \in DOMAIN cache :
         (out.had = "live" /\ cache[i].value.call = out.call) =>
             /\ out.hit /\ ~out.sent /\ out.kind = "ok"
             /\ out.value = cache[i].value
             /\ out.value.q = Query(out.call)
    /\ (out.call # NoArgs /\ ~out.hit /\ out.kind = "ok") =>
             /\ out.sent
             /\ cache[Len(cache)].value = out.value
    /\ \A i \in DOMAIN cache :
         (DiffersInValue(out.call, cache[i].value.call) /\ out.had = "none") =>
             /\ ~out.hit
             /\ out.sent \/ out.kind = "AttributeError"
             /\ out.kind = "ok" => out.value.q = Query(out.call)

\* a hit, later than the request it repeats, while the entry of a call
\* with another placetype is in the cache too
C3_Witness ==
    /\ out.hit /\ ~out.sent /\ out.had = "live" /\ out.value.at < now
    /\ out.call \in Calls /\ out.value.call = out.call
    /\ \E i \in DOMAIN cache : DiffersInValue(out.call, cache[i].value.call)

(* C4: the cache key does not depend on the order of the keyword           *)
(* arguments: calls of one operation with the same positional arguments    *)
(* and the same keyword name/value pairs have the same key, and a call     *)
(* made while the entry of such a call, written in another order, is       *)
(* within its TTL is a hit that returns that entry's value.                *)
C4_KeywordOrderIndependent ==
    /\ \A c, d \in Calls : ArgId(c) = ArgId(d) => Key(c) = Key(d)
    /\ \A i \in DOMAIN cache :
         (out.had = "live" /\ ArgId(cache[i].value.call) = ArgId(out.call)) =>
             /\ out.hit /\ ~out.sent
             /\ out.value = cache[i].value
    /\ Cardinality(Stores) = Len(cache)

\* find(geom=low, placetype=country) returns what
\* find(placetype=country, geom=low) stored
C4_Witness ==
    /\ out.hit /\ out.had = "live"
    /\ out.value.call # out.call
    /\ out.value.call.kwargs # <<>>
    /\ ArgId(out.value.call) = ArgId(out.call)

(* C5: a call made when more than the TTL has passed since the entry for   *)
(* its operation and arguments was stored is a miss: it sends a request,   *)
(* and what it returns is the response to that request, obtained after     *)
(* the old entry expired, never the expired value.                         *)
C5_ExpiredEntryRecomputed ==
    out.had = "stale" =>
        /\ ~out.hit
        /\ out.sent
        /\ out.kind = "ok" =>
               /\ out.value.q = Query(out.call)
               /\ out.value.at > out.oldat + ttl
               /\ \A i \in EntriesFor(cache, out.call) : cache[i].value = out.value

C5_Witness ==
    /\ out.had = "stale" /\ out.kind = "ok" /\ out.sent
    /\ out.oldat >= 0 /\ out.value.at = out.oldat + ttl + 1

(* C6: when the cache holds maxsize entries within their TTL and a call    *)
(* with a key not in it is stored, exactly one entry is evicted, the one   *)
(* accessed (stored or hit) least recently: afterwards a call for the      *)
(* evicted arguments misses, and a call for any other argument list that   *)
(* was stored, or for the new one, hits.                                   *)
C6_EvictsLeastRecentlyUsed ==
    out.order # <<>> =>
        LET held == {out.order[i].id : i \in DOMAIN out.order}
            lru == Head(out.order).id
        IN  /\ Cardinality(held) = maxsize
            /\ ArgId(out.call) \notin held
            /\ Len(cache) = maxsize
            /\ Stores = (held \ {lru}) \cup {ArgId(out.call)}
            /\ \A c \in Calls :
                 /\ ArgId(c) = lru => ~Live(cache, Key(c), out.value.at)
                 /\ ArgId(c) \in Stores => Live(cache, Key(c), out.value.at)

\* the evicted entry was stored after one that a later hit kept in the cache
C6_Witness ==
    /\ out.order # <<>> /\ out.kind = "ok" /\ ~out.hit /\ out.sent
    /\ Len(out.order) = maxsize /\ Len(cache) = maxsize
    /\ Head(out.order).id \notin Stores
    /\ ArgId(out.call) \in Stores
    /\ \E i \in DOMAIN out.order :
         /\ out.order[i].at < Head(out.order).at
         /\ out.order[i].id \in Stores

Contents(c) == {[key |-> c[i].key, value |-> c[i].value, expire |-> c[i].expire] : i \in DOMAIN c}

(* C10: a call of a cached method whose request fails, with any kind of    *)
(* error, stores nothing and leaves the entries of the cache as they were; *)
(* the caller gets the error and no value, and no entry within its TTL     *)
(* stands for the call afterwards, so the same call made again sends a     *)
(* request again.                                                          *)
C10_FailedCallNotCached ==
    [][(now' = now /\ out'.sent /\ out'.kind # "ok") =>
           /\ Contents(cache') = Contents(cache)
           /\ out'.value = NoValue /\ ~out'.hit
           /\ out'.kind \in GetOutcomes
           /\ ~Live(cache', Key(out'.call), now')
           /\ \A i \in EntriesFor(cache', out'.call) : ~Within(cache'[i], now')]_vars

\* a failed call that leaves an earlier entry in place
C10_Witness ==
    /\ out.sent /\ out.kind \in {"NotFoundError", "RetryError"}
    /\ out.value = NoValue
    /\ cache # <<>>
    /\ EntriesFor(cache, out.call) = {}

-----------------------------------------------------------------------------
(* C11: the keys of different cached operations never collide: calls of    *)
(* two of find, shape and prefix have different keys even with identical   *)
(* argument lists, and whatever a call returns, from the cache or from the *)
(* backend, is a response to a request of its own operation.               *)
C11_OperationsNeverCollide ==
    /\ \A c, d \in Calls : c.op # d.op => Key(c) # Key(d)
    /\ (out.call # NoArgs /\ out.kind = "ok") =>
           /\ out.value.call.op = out.call.op
           /\ out.value.q = Query(out.call)
    /\ \A i \in DOMAIN cache : \A c \in Calls :
           cache[i].key = Key(c) => cache[i].value.call.op = c.op

\* shape("morocco") hits while the entry of prefix("morocco") is live too
C11_Witness ==
    /\ out.hit /\ out.call.op = "shape" /\ out.value.call.op = "shape"
    /\ \E i \in DOMAIN cache :
         /\ cache[i].value.call.op = "prefix"
         /\ cache[i].value.call.args = out.call.args
         /\ cache[i].value.call.kwargs = out.call.kwargs
         /\ Within(cache[i], now)

-----------------------------------------------------------------------------
BodyKinds == {"BadRequestError", "RateLimitError", "ServerError"}

(* C12, as stated: every error raised for a terminal response that is not  *)
(* 200 carries the raw body text of the response as its message, whatever  *)
(* its kind.                                                               *)
C12_EveryErrorCarriesBody ==
    (Terminal /\ req.kind # "ok") => req.text = <<req.body>>

(* C12, amended: BadRequestError, RateLimitError and ServerError carry the *)
(* raw body text of the terminal response; NotFoundError carries "404",    *)
(* the method and the path of the request, and GatewayTimeoutError a fixed *)
(* text, neither of them the body.                                         *)
C12_MessageByKind ==
    (Terminal /\ req.kind # "ok") =>
        /\ req.status \notin {404, 504} => (req.kind \in BodyKinds /\ req.text = <<req.body>>)
        /\ req.status = 404 => req.text = <<"404", req.method, Path>>
        /\ req.status = 504 => (Len(req.text) = 2 /\ req.text = Message("Your request timed out", "", NoBody))
        /\ req.status \in {404, 504} => req.text # <<req.body>>

\* a 504 that ends a retried request: the fixed text, not the body it came with
C12_Witness ==
    /\ Terminal /\ req.status = 504 /\ req.kind = "GatewayTimeoutError"
    /\ req.body = "try later" /\ req.text # <<req.body>> /\ req.attempts > 1

-----------------------------------------------------------------------------
\* no caller is inside Service.session
Quiescent == \A t \in Threads : pc[t] \in {"idle", "done"}

(* C13: whenever a session is held and no access is under way, the         *)
(* remembered token is the token in the Authorization header of the held   *)
(* session, also when the shared token was rotated during the access that  *)
(* built it or when callers rebuilt concurrently; so a held session whose  *)
(* header differs from the current token is rebuilt by the next access.    *)
C13_RememberedTokenIsHeaderToken ==
    (Quiescent /\ current_session # NoSession) =>
        sessions[current_session].auth = session_token

-----------------------------------------------------------------------------
(* C14: a session is never changed once build_session has completed it:    *)
(* its Authorization header, base URL, timeout and retry backoff stay what *)
(* they were, no session is ever dropped from the heap, and a rotation of  *)
(* the token changes neither a session nor which one the Service holds,    *)
(* only what the next access will return.                                  *)
C14_SessionNeverMutated ==
    [][/\ Len(sessions') >= Len(sessions)
       /\ \A i \in DOMAIN sessions : Complete(i) => sessions'[i] = sessions[i]
       /\ token' # token =>
              /\ sessions' = sessions
              /\ current_session' = current_session
              /\ session_token' = session_token
              /\ ret' = ret]_vars

\* two complete sessions with different tokens, the older one still as built
\* after the Service has moved on to the newer one
C14_Witness ==
    /\ Len(sessions) >= 2
    /\ Complete(1) /\ Complete(2)
    /\ sessions[1].auth # sessions[2].auth
    /\ current_session = 2 /\ ret[1] = 1 /\ ret[2] = 2
    /\ sessions[2].auth # token

-----------------------------------------------------------------------------
(* C15: a response whose status is outside the forcelist is never retried, *)
(* whatever the method: it ends the request, which returns for 200 and     *)
(* raises the error kind of the status otherwise; when it is the first     *)
(* thing the request met, the request took exactly one attempt.            *)
C15_UnlistedStatusNeverRetried ==
    (req.responses > 0 /\ req.status \in Statuses \ status_forcelist) =>
        /\ req.phase = "done"
        /\ req.kind = Classify(req.status).kind
        /\ req.kind \notin TransportFailures
        /\ req.status = 200 <=> req.kind = "ok"
        /\ req.retry.total = RetryTotal - (req.attempts - 1)

\* a POST answered 504 at once
C15_Witness ==
    /\ req.phase = "done" /\ req.method = "POST"
    /\ req.attempts = 1 /\ req.responses = 1
    /\ req.status = 504 /\ req.kind = "GatewayTimeoutError"
    /\ req.retry = RetryPolicy

-----------------------------------------------------------------------------
(* C16: the backoff base is drawn once, when a session is built, within    *)
(* the range of the draw; every retry of every request made through a      *)
(* session sleeps on the base of that session, also when the token is      *)
(* rotated while the request is in flight; and a session, with its new     *)
(* base, is built only by a session access that is the first one or finds  *)
(* the token changed, never by a retry.                                    *)
C16_BackoffDrawnOncePerSession ==
    [][/\ \A i \in DOMAIN sessions' : sessions'[i].backoff \in BackoffBases
       /\ \A i \in DOMAIN sessions : sessions'[i].backoff = sessions[i].backoff
       /\ req'.phase # "idle" =>
              /\ req'.sid \in DOMAIN sessions'
              /\ \A k \in DOMAIN req'.sleeps : req'.sleeps[k] = sessions'[req'.sid].backoff
              /\ Len(req'.sleeps) = req'.attempts - (IF req'.phase = "done" THEN 1 ELSE 0)
       /\ sessions' # sessions =>
              /\ Len(sessions') = Len(sessions) + 1
              /\ req'.phase = "sending" /\ req'.attempts = 0
              /\ req'.sid = Len(sessions')
              /\ current_session = NoSession \/ session_token # token
       /\ (req'.attempts > 0 /\ req'.phase = "sending" /\ req.phase = "sending") =>
              (sessions' = sessions /\ req'.sid = req.sid)]_vars

\* a request on the second session, retried twice on its base, which is not
\* the base of the first session, with the token rotated since it started
C16_Witness ==
    /\ Len(sessions) = 2 /\ req.sid = 2
    /\ sessions[1].backoff # sessions[2].backoff
    /\ Len(req.sleeps) = 2 /\ req.phase = "sending"
    /\ sessions[2].auth # token

-----------------------------------------------------------------------------
(* C17: no operation of a Service writes the shared token: constructing a  *)
(* Service, with a token argument or without, accessing its session and    *)
(* sending requests all leave the token of the auth context as it was.     *)
C17_ServiceNeverWritesToken ==
    [][token' = token]_vars

-----------------------------------------------------------------------------
-----------------------------------------------------------------------------
(* C19: the cache does not depend on the token or on the session: a call   *)
(* that finds a live entry is a hit also after the token was rotated, it   *)
(* returns the stored value, sends nothing, and leaves the session, the    *)
(* remembered token and the sessions built so far exactly as they were.    *)
C19_HitIndependentOfSession ==
    [][/\ (out'.call \in Calls /\ out'.had = "live") => out'.hit
       /\ (token' = token /\ out'.hit) =>
              /\ current_session' = current_session
              /\ session_token' = session_token
              /\ sessions' = sessions
              /\ ret' = ret
              /\ ~out'.sent /\ out'.kind = "ok"
              /\ out'.tok = token
              /\ \E i \in DOMAIN cache : cache[i].value = out'.value]_vars

\* a hit made under a token other than the remembered one, on an entry whose
\* request went out with the old token; the stale session is still held
C19_Witness ==
    /\ out.hit /\ out.tok # session_token /\ out.tok = token
    /\ current_session # NoSession
    /\ sessions[current_session].auth = session_token
    /\ Len(sessions) = 1

(* C20: find, shape and prefix share one cache and one capacity: the       *)
(* entries of all three together never number more than maxsize, only      *)
(* these three operations have entries, and a call of an uncached method   *)
(* leaves the cache as it was and returns what the backend answered.       *)
C20_OneCacheForAllOperations ==
    [][/\ Len(cache') <= maxsize
       /\ \A i \in DOMAIN cache' : cache'[i].value.call.op \in Ops
       /\ (token' = token /\ out'.call.op \in UncachedOps) =>
              /\ cache' = cache
              /\ recent' = recent
              /\ ~out'.hit
              /\ out'.kind = "ok" =>
                     (out'.sent /\ out'.value.at = now /\ out'.value.q.path = <<out'.call.op>>)]_vars

\* storing a result of one operation has evicted an entry of another one
C20_Witness ==
    /\ out.order # <<>> /\ out.kind = "ok"
    /\ Head(out.order).id.op # out.call.op
    /\ Head(out.order).id \notin Stores
    /\ Len(cache) = maxsize
    /\ \E i, j \in DOMAIN cache : cache[i].value.call.op # cache[j].value.call.op

====
